---- MODULE Spec2Model ----
(***************************************************************************)
(* Model of ProductInventoryApp (src/src/App.jsx): the CSV load, the view  *)
(* parameters (search text, selected date, sort column and direction) and  *)
(* the memoised view filteredProducts (date filter, text filter, grouping, *)
(* duplicate annotation, sorting).                                         *)
(*                                                                         *)
(* JavaScript strings are modelled as sequences of one-character strings,  *)
(* so that trimming, substring search, the regular expressions of          *)
(* parseQuantity and getUnit, template-literal concatenation and number    *)
(* formatting are computed character by character.                         *)
(***************************************************************************)
EXTENDS Integers, Sequences, FiniteSets, TLC

VARIABLES products, searchTerm, loading, error, sortBy, sortColumn,
          selectedDate, loadPc, filteredProducts

vars == <<products, searchTerm, loading, error, sortBy, sortColumn,
          selectedDate, loadPc, filteredProducts>>

\* Largest number of rows of the parsed CSV (results.data.length).
MaxRows == 3

----------------------------------------------------------------------------
(* Characters and strings *)

Digits == <<"0", "1", "2", "3", "4", "5", "6", "7", "8", "9">>

DigitValue == [c \in {Digits[d] : d \in 1..10} |->
                 (CHOOSE d \in 1..10 : Digits[d] = c) - 1]

IsDigit(c) == c \in DOMAIN DigitValue

DigitVal(c) == DigitValue[c]

\* String.prototype.trim strips these from both ends.
IsWhitespace(c) == c \in {" ", "\t", "\n", "\r"}

RECURSIVE TrimStart(_)
TrimStart(s) ==
  IF s # <<>> /\ IsWhitespace(Head(s)) THEN TrimStart(Tail(s)) ELSE s

RECURSIVE TrimEnd(_)
TrimEnd(s) ==
  IF s # <<>> /\ IsWhitespace(s[Len(s)])
    THEN TrimEnd(SubSeq(s, 1, Len(s) - 1))
    ELSE s

Trim(s) == TrimEnd(TrimStart(s))

\* Upper-case letter -> lower-case letter, for the letters of the model's
\* alphabet (ASCII and the Turkish letters with a one-character lower case).
\* A character outside Latin-1 is written as its code point: "U+011F" is
\* g-breve, "U+011E" its capital, "U+015F" s-cedilla, "U+015E" its capital,
\* "U+0131" the dotless i.
LowerOf ==
  ("A" :> "a") @@ ("B" :> "b") @@ ("C" :> "c") @@ ("Ç" :> "ç") @@
  ("D" :> "d") @@ ("E" :> "e") @@ ("F" :> "f") @@ ("G" :> "g") @@
  ("U+011E" :> "U+011F") @@ ("H" :> "h") @@ ("I" :> "i") @@ ("J" :> "j") @@
  ("K" :> "k") @@ ("L" :> "l") @@ ("M" :> "m") @@ ("N" :> "n") @@
  ("O" :> "o") @@ ("Ö" :> "ö") @@ ("P" :> "p") @@ ("Q" :> "q") @@
  ("R" :> "r") @@ ("S" :> "s") @@ ("U+015E" :> "U+015F") @@ ("T" :> "t") @@
  ("U" :> "u") @@ ("Ü" :> "ü") @@ ("V" :> "v") @@ ("W" :> "w") @@
  ("X" :> "x") @@ ("Y" :> "y") @@ ("Z" :> "z")

\* String.prototype.toLowerCase (locale-independent: "I" becomes "i").
toLowerCase(s) ==
  [i \in 1..Len(s) |-> IF s[i] \in DOMAIN LowerOf THEN LowerOf[s[i]] ELSE s[i]]

\* Canonicalize of a case-insensitive regular expression without the u flag:
\* a character is compared by its upper case, which is the same as comparing
\* lower cases for the letters above; the dotless i is left as it is (its
\* upper case "I" is ASCII while it is not), so it differs from "i"/"I".
Canonicalize(c) == IF c \in DOMAIN LowerOf THEN LowerOf[c] ELSE c

\* String.prototype.includes
includes(s, t) ==
  \E i \in 1..(Len(s) - Len(t) + 1) : SubSeq(s, i, i + Len(t) - 1) = t

\* Primary collation order of the Turkish locale ('tr') over the lower-cased
\* alphabet of the model: white space, punctuation, digits, then the letters
\* in Turkish alphabet order (c-cedilla after c, g-breve after g, dotless i
\* before i, o-umlaut after o, s-cedilla after s, u-umlaut after u).
CollationOrder ==
  <<" ", "-", ".", "0", "1", "2", "3", "4", "5", "6", "7", "8", "9",
    "a", "b", "c", "ç", "d", "e", "f", "g", "U+011F", "h", "U+0131", "i", "j", "k",
    "l", "m", "n", "o", "ö", "p", "q", "r", "s", "U+015F", "t", "u", "ü", "v",
    "w", "x", "y", "z">>

CollationRankOf ==
  [c \in {CollationOrder[k] : k \in 1..Len(CollationOrder)} |->
     CHOOSE k \in 1..Len(CollationOrder) : CollationOrder[k] = c]

CollationRank(c) == CollationRankOf[c]

\* String.prototype.localeCompare(b, 'tr'): negative, zero or positive.
RECURSIVE localeCompare(_, _)
localeCompare(a, b) ==
  IF a = <<>> /\ b = <<>> THEN 0
  ELSE IF a = <<>> THEN -1
  ELSE IF b = <<>> THEN 1
  ELSE IF CollationRank(Head(a)) < CollationRank(Head(b)) THEN -1
  ELSE IF CollationRank(Head(a)) > CollationRank(Head(b)) THEN 1
  ELSE localeCompare(Tail(a), Tail(b))

\* Template-literal conversion of a non-negative integer to decimal text.
RECURSIVE NumberToString(_)
NumberToString(n) ==
  IF n < 10 THEN <<Digits[n + 1]>>
  ELSE NumberToString(n \div 10) \o <<Digits[(n % 10) + 1]>>

----------------------------------------------------------------------------
(* parseQuantity and getUnit *)

\* Sum of the maximal digit runs of s from position i on; cur is the value
\* of the run in progress (parseInt(num, 10) of each match of /\d+/g).
RECURSIVE SumDigitRuns(_, _, _)
SumDigitRuns(s, i, cur) ==
  IF i > Len(s) THEN cur
  ELSE IF IsDigit(s[i]) THEN SumDigitRuns(s, i + 1, cur * 10 + DigitVal(s[i]))
  ELSE cur + SumDigitRuns(s, i + 1, 0)

parseQuantity(quantityStr) == SumDigitRuns(quantityStr, 1, 0)

\* The alternatives of getUnit's regular expression, in its order.
UnitVocabulary ==
  << <<"k", "g">>,
     <<"k", "a", "s", "a">>,
     <<"a", "d", "e", "t">>,
     <<"p", "a", "k", "e", "t">>,
     <<"d", "e", "m", "e", "t">>,
     <<"b", "a", "U+011F">>,
     <<"ç", "u", "b", "u", "k">>,
     <<"t", "a", "n", "e">>,
     <<"ç", "u", "v", "a", "l">>,
     <<"s", "a", "l", "k", "U+0131", "m">> >>

DefaultUnit == <<"a", "d", "e", "t">>

\* Alternative u matches s at position i, case-insensitively.
UnitMatchesAt(s, i, u) ==
  /\ i + Len(u) - 1 <= Len(s)
  /\ \A j \in 1..Len(u) : Canonicalize(s[i + j - 1]) = Canonicalize(u[j])

UnitMatchPositions(s) ==
  {i \in 1..Len(s) :
     \E k \in 1..Len(UnitVocabulary) : UnitMatchesAt(s, i, UnitVocabulary[k])}

\* units[0]: the leftmost match, by the first alternative that matches there,
\* in the casing of the text; 'adet' when nothing matches.
getUnit(quantityStr) ==
  LET pos == UnitMatchPositions(quantityStr) IN
  IF pos = {} THEN DefaultUnit
  ELSE
    LET i == CHOOSE p \in pos : \A q \in pos : p <= q
        k == CHOOSE a \in 1..Len(UnitVocabulary) :
               /\ UnitMatchesAt(quantityStr, i, UnitVocabulary[a])
               /\ \A b \in 1..(a - 1) :
                    ~UnitMatchesAt(quantityStr, i, UnitVocabulary[b])
    IN SubSeq(quantityStr, i, i + Len(UnitVocabulary[k]) - 1)

----------------------------------------------------------------------------
(* Inputs: the rows Papa.parse delivers, the search texts, the dates *)

null == "null"

\* date: '2025-08-26', the date every loaded product gets; also the initial
\* selectedDate.
DefaultDate == "2025-08-26"

\* Values of the date input.
Dates == {DefaultDate, "2025-08-27"}

\* Values of the search input.
SearchTerms == {<<>>, <<"E", "L">>, <<"B">>}

SortColumns == {"name", "quantity"}

SortDirections == {"asc", "desc", "none"}

Elma == <<"E", "l", "m", "a">>

Armut == <<"A", "r", "m", "u", "t">>

Kg2 == <<"2", " ", "k", "g">>

Kg3 == <<"3", " ", "k", "g">>

Kg4 == <<"4", " ", "k", "g">>

Adet1 == <<"1", " ", "a", "d", "e", "t">>

\* A row of results.data: the cells under the headers of either casing; a
\* missing column and an empty cell are both falsy and are both <<>> here.
Row(urun, Urun, miktar, Miktar) ==
  [urun |-> urun, Urun |-> Urun, miktar |-> miktar, Miktar |-> Miktar]

RawRows ==
  { Row(Elma, <<>>, Kg2, <<>>),
    Row(<<>>, Elma, <<>>, Kg3),
    Row(Elma, <<>>, Kg4, <<>>),
    Row(Armut, <<>>, Adet1, <<>>),
    Row(<<"a", "-", "b">>, <<>>, Kg2, <<>>),
    Row(<<"a">>, <<>>, <<"b", "-", "2", " ", "k", "g">>, <<>>),
    Row(<<" ", "e", "l", "m", "a">>, <<>>, <<"3", " ", "K", "a", "s", "a", " ">>, <<>>),
    Row(<<" ">>, <<>>, Kg2, <<>>),
    Row(<<"c", "o", "n", "s", "t", "r", "u", "c", "t", "o", "r">>, <<>>,
        <<"1", ".", "5">>, <<>>) }

\* Every results.data of at most MaxRows rows.
RowLists == UNION {[1..n -> RawRows] : n \in 0..MaxRows}

----------------------------------------------------------------------------
(* The complete callback: rows to products *)

\* The .map callback; index is the 0-based position in results.data.
ProcessRow(row, index) ==
  LET productName == IF row.urun # <<>> THEN row.urun ELSE row.Urun
      quantity    == IF row.miktar # <<>> THEN row.miktar ELSE row.Miktar
  IN [id               |-> index + 1,
      name             |-> Trim(productName),
      quantity         |-> Trim(quantity),
      originalQuantity |-> Trim(quantity),
      date             |-> DefaultDate,
      uniqueKey        |-> Trim(productName) \o <<"-">> \o Trim(quantity)]

\* .map(...).filter((product) => product.name && product.quantity)
processedProducts(data) ==
  LET Kept(product) == product.name # <<>> /\ product.quantity # <<>>
  IN SelectSeq([i \in 1..Len(data) |-> ProcessRow(data[i], i - 1)], Kept)

----------------------------------------------------------------------------
(* filteredProducts: the memoised view *)

\* filtered.filter(product => product.date === selectedDate)
FilterByDate(list, date) ==
  LET Match(product) == product.date = date
  IN SelectSeq(list, Match)

\* if (searchTerm) filtered.filter(name.toLowerCase().includes(...))
FilterBySearch(list, term) ==
  LET Match(product) == includes(toLowerCase(product.name), toLowerCase(term))
  IN IF term # <<>> THEN SelectSeq(list, Match) ELSE list

\* GroupKey made of the name alone.
GroupKeyNameOnly(product) == product.name

\* const key = `${product.name}-${product.quantity}`
GroupKey(product) == product.name \o <<"-">> \o product.quantity

\* CombineQuantities with the new product's magnitude left out of the sum.
CombineQuantitiesKeepExisting(existing, product) ==
  LET existingQuantity == parseQuantity(existing.quantity)
      unit             == getUnit(product.quantity)
      text             == NumberToString(existingQuantity) \o <<" ">> \o unit
  IN [existing EXCEPT !.quantity = text, !.originalQuantity = text]

\* CombineQuantities with the stored text not read back: the sum is taken as
\* twice the new product's magnitude.
CombineQuantitiesFromProduct(existing, product) ==
  LET newQuantity      == parseQuantity(product.quantity)
      combinedQuantity == newQuantity + newQuantity
      unit             == getUnit(product.quantity)
      text             == NumberToString(combinedQuantity) \o <<" ">> \o unit
  IN [existing EXCEPT !.quantity = text, !.originalQuantity = text]

\* The branch that combines a product into the group already stored.
CombineQuantities(existing, product) ==
  LET existingQuantity == parseQuantity(existing.quantity)
      newQuantity      == parseQuantity(product.quantity)
      combinedQuantity == existingQuantity + newQuantity
      unit             == getUnit(product.quantity)
      text             == NumberToString(combinedQuantity) \o <<" ">> \o unit
  IN [existing EXCEPT !.quantity = text, !.originalQuantity = text]

\* groupedProducts[key] = product: the group is the stored object itself.
StoredReference(product) == product.id

\* groupedProducts[key] = { ...product }: the object a group holds. A stored
\* product is named by its id (from 1 on); 0 names an object made by the
\* computation, which the spread creates.
SpreadCopy(product) == 0

\* One step of the forEach over filtered. groupedProducts is the sequence of
\* its own properties in insertion order: a key always holds a "-" after a
\* non-empty name, so it is never an array index and Object.values keeps
\* insertion order. object names the object that the writes to
\* groupedProducts[key].quantity and .originalQuantity land on.
GroupStep(groupedProducts, product) ==
  LET key == GroupKey(product) IN
  IF \E g \in 1..Len(groupedProducts) : groupedProducts[g].key = key
    THEN [g \in 1..Len(groupedProducts) |->
            IF groupedProducts[g].key = key
              THEN [key    |-> key,
                    value  |-> CombineQuantities(groupedProducts[g].value, product),
                    object |-> groupedProducts[g].object]
              ELSE groupedProducts[g]]
    ELSE Append(groupedProducts,
                [key |-> key, value |-> product, object |-> SpreadCopy(product)])

RECURSIVE GroupFrom(_, _, _)
GroupFrom(filtered, i, groupedProducts) ==
  IF i > Len(filtered) THEN groupedProducts
  ELSE GroupFrom(filtered, i + 1, GroupStep(groupedProducts, filtered[i]))

\* Object.values(groupedProducts) after the forEach.
GroupProducts(filtered) ==
  LET groupedProducts == GroupFrom(filtered, 1, <<>>)
  IN [g \in 1..Len(groupedProducts) |-> groupedProducts[g].value]

\* The stored products after the forEach: a stored object that a group holds
\* carries what the forEach wrote to the group; filter, map and the sort of
\* [...filtered] write to no stored object and to no stored array.
StoredAfterGrouping(prods, term, date) ==
  LET groupedProducts ==
        GroupFrom(FilterBySearch(FilterByDate(prods, date), term), 1, <<>>)
      Held(i) == {g \in 1..Len(groupedProducts) :
                    groupedProducts[g].object = prods[i].id}
  IN [i \in 1..Len(prods) |->
        IF Held(i) = {} THEN prods[i]
        ELSE LET written == groupedProducts[CHOOSE g \in Held(i) : TRUE].value
             IN [prods[i] EXCEPT !.quantity = written.quantity,
                                 !.originalQuantity = written.originalQuantity]]

\* JavaScript values a nameCounts property can hold: a number, or the text
\* that "+ 1" makes of a non-number; val is then the number of "1"s appended.
JsNumber(n) == [type |-> "number", val |-> n]

JsText(n) == [type |-> "string", val |-> n]

\* Names that nameCounts = {} inherits from Object.prototype as functions.
ObjectPrototypeMethods ==
  { <<"c", "o", "n", "s", "t", "r", "u", "c", "t", "o", "r">>,
    <<"t", "o", "S", "t", "r", "i", "n", "g">>,
    <<"v", "a", "l", "u", "e", "O", "f">> }

\* nameCounts[name] = (nameCounts[name] || 0) + 1
CountStep(nameCounts, name) ==
  LET next ==
        IF name \in DOMAIN nameCounts
          THEN IF nameCounts[name].type = "number"
                 THEN JsNumber(nameCounts[name].val + 1)
                 ELSE JsText(nameCounts[name].val + 1)
        ELSE IF name \in ObjectPrototypeMethods
          THEN JsText(1)
        ELSE JsNumber(1)
  IN (name :> next) @@ nameCounts

RECURSIVE CountFrom(_, _, _)
CountFrom(filtered, i, nameCounts) ==
  IF i > Len(filtered) THEN nameCounts
  ELSE CountFrom(filtered, i + 1, CountStep(nameCounts, filtered[i].name))

\* nameCounts[product.name] > 1: a text that is no number compares false.
GreaterThanOne(v) == v.type = "number" /\ v.val > 1

\* The nameCounts pass and the .map that adds duplicateCount, isDuplicate.
AnnotateDuplicates(filtered) ==
  LET nameCounts == CountFrom(filtered, 1, <<>>)
  IN [i \in 1..Len(filtered) |->
        [id               |-> filtered[i].id,
         name             |-> filtered[i].name,
         quantity         |-> filtered[i].quantity,
         originalQuantity |-> filtered[i].originalQuantity,
         date             |-> filtered[i].date,
         uniqueKey        |-> filtered[i].uniqueKey,
         duplicateCount   |-> nameCounts[filtered[i].name],
         isDuplicate      |-> GreaterThanOne(nameCounts[filtered[i].name])]]

\* SortComparator with the direction applied to the quantity column only.
SortComparatorNameAscending(a, b, column, direction) ==
  IF column = "name"
    THEN localeCompare(toLowerCase(a.name), toLowerCase(b.name))
  ELSE IF direction = "desc"
    THEN parseQuantity(b.quantity) - parseQuantity(a.quantity)
  ELSE parseQuantity(a.quantity) - parseQuantity(b.quantity)

\* The comparator handed to sort.
SortComparator(a, b, column, direction) ==
  LET comparison ==
        IF column = "name"
          THEN localeCompare(toLowerCase(a.name), toLowerCase(b.name))
        ELSE IF column = "quantity"
          THEN parseQuantity(a.quantity) - parseQuantity(b.quantity)
        ELSE 0
  IN IF direction = "desc" THEN -comparison ELSE comparison

\* Array.prototype.sort is stable: x goes behind every element that does not
\* compare greater than it.
StableInsert(sorted, x, column, direction) ==
  LET k == Cardinality({i \in 1..Len(sorted) :
                          SortComparator(sorted[i], x, column, direction) <= 0})
  IN SubSeq(sorted, 1, k) \o <<x>> \o SubSeq(sorted, k + 1, Len(sorted))

RECURSIVE SortFrom(_, _, _, _, _)
SortFrom(list, i, sorted, column, direction) ==
  IF i > Len(list) THEN sorted
  ELSE SortFrom(list, i + 1, StableInsert(sorted, list[i], column, direction),
                column, direction)

Reverse(list) == [i \in 1..Len(list) |-> list[Len(list) + 1 - i]]

\* SortProducts with 'desc' done as an ascending sort that is then reversed.
SortProductsReversing(list, column, direction) ==
  IF direction = "none" THEN list
  ELSE IF direction = "desc" THEN Reverse(SortFrom(list, 1, <<>>, column, "asc"))
  ELSE SortFrom(list, 1, <<>>, column, "asc")

\* if (sortBy !== 'none') filtered = [...filtered].sort(...)
SortProducts(list, column, direction) ==
  IF direction # "none" THEN SortFrom(list, 1, <<>>, column, direction) ELSE list

\* ComputeFilteredProducts with the date filter applied to the groups.
ComputeFilteredProductsDateLast(prods, term, direction, column, date) ==
  SortProducts(
    AnnotateDuplicates(
      FilterByDate(GroupProducts(FilterBySearch(prods, term)), date)),
    column, direction)

\* The body of the useMemo.
ComputeFilteredProducts(prods, term, direction, column, date) ==
  SortProducts(
    AnnotateDuplicates(
      GroupProducts(FilterBySearch(FilterByDate(prods, date), term))),
    column, direction)

----------------------------------------------------------------------------
(* State machine *)

\* The view is recomputed on every render from the values written below;
\* stored is the list the products state holds when the memo runs, and the
\* objects of that list are what the state holds afterwards.
Recompute(stored) ==
  /\ filteredProducts' =
       ComputeFilteredProducts(stored, searchTerm', sortBy', sortColumn',
                               selectedDate')
  /\ products' = StoredAfterGrouping(stored, searchTerm', selectedDate')

\* The useState initial values; the effect has started loadCSV, which waits
\* for fetch.
Init ==
  /\ products = <<>>
  /\ searchTerm = <<>>
  /\ loading = TRUE
  /\ error = null
  /\ sortBy = "desc"
  /\ sortColumn = "quantity"
  /\ selectedDate = DefaultDate
  /\ loadPc = "fetch"
  /\ filteredProducts = <<>>

\* The messages are written without the diacritics of the source.
NotFoundMessage == "Dosya yuklenirken hata olustu: CSV dosyasi bulunamadi."

FetchFailedMessage == "Dosya yuklenirken hata olustu: Failed to fetch"

ParseFailedMessage == "CSV dosyasi okunurken hata olustu: parse error"

\* fetch resolves with response.ok and response.text() resolves.
FetchOk ==
  /\ loadPc = "fetch"
  /\ loadPc' = "parse"
  /\ UNCHANGED <<searchTerm, loading, error, sortBy, sortColumn,
                 selectedDate>>
  /\ Recompute(products)

\* !response.ok: the Error thrown is caught by the catch block.
FetchNotOk ==
  /\ loadPc = "fetch"
  /\ error' = NotFoundMessage
  /\ loading' = FALSE
  /\ loadPc' = "done"
  /\ UNCHANGED <<searchTerm, sortBy, sortColumn, selectedDate>>
  /\ Recompute(products)

\* fetch or response.text() rejects: the catch block.
FetchThrows ==
  /\ loadPc = "fetch"
  /\ error' = FetchFailedMessage
  /\ loading' = FALSE
  /\ loadPc' = "done"
  /\ UNCHANGED <<searchTerm, sortBy, sortColumn, selectedDate>>
  /\ Recompute(products)

\* Papa.parse calls complete(results), results.data being one of lists.
ParseCompleteFrom(lists) ==
  /\ loadPc = "parse"
  /\ loading' = FALSE
  /\ loadPc' = "done"
  /\ UNCHANGED <<searchTerm, error, sortBy, sortColumn, selectedDate>>
  /\ \E data \in lists : Recompute(processedProducts(data))

\* Papa.parse calls complete(results), results.data being any row list.
ParseComplete == ParseCompleteFrom(RowLists)

\* ParseError without setLoading(false).
ParseErrorStillLoading ==
  /\ loadPc = "parse"
  /\ error' = ParseFailedMessage
  /\ loadPc' = "done"
  /\ UNCHANGED <<searchTerm, loading, sortBy, sortColumn, selectedDate>>
  /\ Recompute(products)

\* Papa.parse calls error(error).
ParseError ==
  /\ loadPc = "parse"
  /\ error' = ParseFailedMessage
  /\ loading' = FALSE
  /\ loadPc' = "done"
  /\ UNCHANGED <<searchTerm, sortBy, sortColumn, selectedDate>>
  /\ Recompute(products)

\* The inputs and the table header are rendered only past the loading and
\* error screens.
TableShown == loading = FALSE /\ error = null

\* handleSort that keeps the direction when the column changes.
handleSortKeepingDirection(column) ==
  /\ TableShown
  /\ IF sortColumn = column
       THEN /\ sortBy' = IF sortBy = "asc" THEN "desc"
                         ELSE IF sortBy = "desc" THEN "none"
                         ELSE "asc"
            /\ sortColumn' = sortColumn
       ELSE /\ sortColumn' = column
            /\ sortBy' = sortBy
  /\ UNCHANGED <<searchTerm, loading, error, selectedDate, loadPc>>
  /\ Recompute(products)

handleSort(column) ==
  /\ TableShown
  /\ IF sortColumn = column
       THEN /\ sortBy' = IF sortBy = "asc" THEN "desc"
                         ELSE IF sortBy = "desc" THEN "none"
                         ELSE "asc"
            /\ sortColumn' = sortColumn
       ELSE /\ sortColumn' = column
            /\ sortBy' = "asc"
  /\ UNCHANGED <<searchTerm, loading, error, selectedDate, loadPc>>
  /\ Recompute(products)

\* onChange of the search input: fired with a value that differs.
setSearchTerm(value) ==
  /\ TableShown
  /\ value # searchTerm
  /\ searchTerm' = value
  /\ UNCHANGED <<loading, error, sortBy, sortColumn, selectedDate, loadPc>>
  /\ Recompute(products)

\* onChange of the date input: fired with a value that differs.
setSelectedDate(value) ==
  /\ TableShown
  /\ value # selectedDate
  /\ selectedDate' = value
  /\ UNCHANGED <<searchTerm, loading, error, sortBy, sortColumn, loadPc>>
  /\ Recompute(products)

Next ==
  \/ FetchOk
  \/ FetchNotOk
  \/ FetchThrows
  \/ ParseComplete
  \/ ParseError
  \/ \E column \in SortColumns : handleSort(column)
  \/ \E value \in SearchTerms : setSearchTerm(value)
  \/ \E value \in Dates : setSelectedDate(value)

Spec == Init /\ [][Next]_vars

\* The view as a function of its inputs, on product lists whose records
\* carry either date: the load stamps one date on every record, so the
\* lists below are inputs of filteredProducts, not results of loadCSV.
DatedRawRows ==
  { Row(Elma, <<>>, Kg2, <<>>),
    Row(Elma, <<>>, Kg4, <<>>),
    Row(Armut, <<>>, Adet1, <<>>) }

DatedRowLists == UNION {[1..n -> DatedRawRows] : n \in 0..MaxRows}

Redate(list, dates) ==
  [i \in 1..Len(list) |-> [list[i] EXCEPT !.date = dates[i]]]

InitDated ==
  /\ \E data \in DatedRowLists :
       \E dates \in [1..Len(data) -> Dates] :
         products = Redate(processedProducts(data), dates)
  /\ searchTerm = <<>>
  /\ loading = FALSE
  /\ error = null
  /\ sortBy = "desc"
  /\ sortColumn = "quantity"
  /\ selectedDate = DefaultDate
  /\ loadPc = "done"
  /\ filteredProducts =
       ComputeFilteredProducts(products, searchTerm, sortBy, sortColumn,
                               selectedDate)

NextDated ==
  \/ \E column \in SortColumns : handleSort(column)
  \/ \E value \in SearchTerms : setSearchTerm(value)
  \/ \E value \in Dates : setSelectedDate(value)

DatedSpec == InitDated /\ [][NextDated]_vars

\* The load followed by the handlers, on the row lists of DatedRowLists: a
\* step of loadCSV is the promise of fetch settling, the continuation after
\* an await, or the parser's callback.
LoadStep ==
  \/ FetchOk
  \/ FetchNotOk
  \/ FetchThrows
  \/ ParseCompleteFrom(DatedRowLists)
  \/ ParseError

LoadNext ==
  \/ LoadStep
  \/ \E column \in SortColumns : handleSort(column)
  \/ \E value \in SearchTerms : setSearchTerm(value)
  \/ \E value \in Dates : setSelectedDate(value)

\* The event loop runs a continuation that is ready, and the promises of
\* fetch and response.text() settle.
FairSpec == Init /\ [][LoadNext]_vars /\ WF_vars(LoadStep)

----------------------------------------------------------------------------
(* Properties *)

\* The loaded products that pass the date filter and the search filter, in
\* input order.
PassingProducts ==
  LET Pass(p) ==
        /\ p.date = selectedDate
        /\ \/ searchTerm = <<>>
           \/ includes(toLowerCase(p.name), toLowerCase(searchTerm))
  IN SelectSeq(products, Pass)

RECURSIVE SumOfMagnitudes(_)
SumOfMagnitudes(list) ==
  IF list = <<>> THEN 0
  ELSE parseQuantity(Head(list).quantity) + SumOfMagnitudes(Tail(list))

\* The passing products that the output record r stands for: those whose
\* name-quantity key is the one r was stored under.
MembersOf(passing, r) ==
  LET Same(p) == p.uniqueKey = r.uniqueKey
  IN SelectSeq(passing, Same)

\* The id of the first passing product with the name and quantity text of p.
LeaderId(passing, p) ==
  LET same == {i \in 1..Len(passing) :
                 /\ passing[i].name = p.name
                 /\ passing[i].quantity = p.quantity}
  IN passing[CHOOSE i \in same : \A j \in same : i <= j].id

\* C1 (as claimed): passing products are merged into one output record if
\* and only if they have the same name and the same quantity text, so the
\* view holds exactly one record per distinct (name, quantity text) pair,
\* carrying the id of the pair's first product; products with different
\* names are never merged.
C1_MergedIffSameNameAndText ==
  LET passing == PassingProducts
      leaders == {LeaderId(passing, passing[i]) : i \in 1..Len(passing)}
  IN /\ Len(filteredProducts) = Cardinality(leaders)
     /\ {filteredProducts[k].id : k \in 1..Len(filteredProducts)} = leaders

\* C2: an output record that stands for k > 1 products has the quantity text
\* "<S> <unit>", S the sum of parseQuantity over its members' texts and unit
\* getUnit of the last member's text, and the id, name and date of its first
\* member; a record that stands for one product keeps that product's text.
C2_MergedQuantityText ==
  LET passing == PassingProducts IN
  \A k \in 1..Len(filteredProducts) :
    LET r == filteredProducts[k]
        m == MembersOf(passing, r)
    IN /\ Len(m) >= 1
       /\ r.id = m[1].id
       /\ r.name = m[1].name
       /\ r.date = m[1].date
       /\ r.quantity =
            IF Len(m) = 1 THEN m[1].quantity
            ELSE NumberToString(SumOfMagnitudes(m)) \o <<" ">>
                   \o getUnit(m[Len(m)].quantity)

\* A view with a record merged from three products.
C2_Witness ==
  \E k \in 1..Len(filteredProducts) :
    /\ Len(MembersOf(PassingProducts, filteredProducts[k])) = 3
    /\ filteredProducts[k].quantity = <<"6", " ", "k", "g">>

\* The summary of a view that C3 speaks of.
NameTextDuplicate(view) ==
  [k \in 1..Len(view) |-> <<view[k].name, view[k].quantity, view[k].isDuplicate>>]

\* C3 (as claimed): the rows Elma "2 kg", Elma "3 kg", Armut "1 adet" with
\* empty search text and sort direction none give the view
\* Elma "5 kg" (not a duplicate), Armut "1 adet" (not a duplicate).
C3_EndToEnd ==
  ( /\ products = processedProducts(<<Row(Elma, <<>>, Kg2, <<>>),
                                      Row(<<>>, Elma, <<>>, Kg3),
                                      Row(Armut, <<>>, Adet1, <<>>)>>)
    /\ searchTerm = <<>>
    /\ sortBy = "none"
    /\ selectedDate = DefaultDate )
  => NameTextDuplicate(filteredProducts)
       = << <<Elma, <<"5", " ", "k", "g">>, FALSE>>, <<Armut, Adet1, FALSE>> >>

\* C4 (as claimed): every output record's duplicateCount is the number of
\* output records of the view with its name, and isDuplicate is true exactly
\* when that number is greater than 1.
C4_DuplicateCount ==
  \A k \in 1..Len(filteredProducts) :
    LET n == Cardinality({j \in 1..Len(filteredProducts) :
                            filteredProducts[j].name = filteredProducts[k].name})
    IN /\ filteredProducts[k].duplicateCount = JsNumber(n)
       /\ filteredProducts[k].isDuplicate = (n > 1)

\* C5: every output record has the selected date and its magnitude is the
\* sum over the products of that date it stands for, whatever products of
\* other dates share its key; when no product has the selected date the view
\* is empty, its count 0 and its total magnitude 0.
C5_DateFilterBeforeGrouping ==
  /\ LET passing == PassingProducts IN
     \A k \in 1..Len(filteredProducts) :
       /\ filteredProducts[k].date = selectedDate
       /\ parseQuantity(filteredProducts[k].quantity)
            = SumOfMagnitudes(MembersOf(passing, filteredProducts[k]))
  /\ (\A i \in 1..Len(products) : products[i].date # selectedDate)
       => /\ filteredProducts = <<>>
          /\ Len(filteredProducts) = 0
          /\ SumOfMagnitudes(filteredProducts) = 0

\* Two products with one key and different dates, and the view shows the
\* one of the selected date unmerged.
C5_Witness ==
  \E i, j \in 1..Len(products) :
    /\ products[i].uniqueKey = products[j].uniqueKey
    /\ products[i].date = selectedDate
    /\ products[j].date # selectedDate
    /\ \E k \in 1..Len(filteredProducts) :
         /\ filteredProducts[k].uniqueKey = products[i].uniqueKey
         /\ filteredProducts[k].quantity = products[i].quantity

\* C6 (as claimed): the view equals the one obtained by grouping and
\* annotating all products of the selected date and filtering the aggregated
\* records by the search text afterwards.
C6_SearchFilterCommutes ==
  filteredProducts =
    SortProducts(
      FilterBySearch(
        AnnotateDuplicates(GroupProducts(FilterByDate(products, selectedDate))),
        searchTerm),
      sortColumn, sortBy)

CycleNext(direction) ==
  IF direction = "asc" THEN "desc"
  ELSE IF direction = "desc" THEN "none"
  ELSE "asc"

\* C7: the sort state is always a pair of {name, quantity} x {asc, desc,
\* none}, starting at (quantity, desc); a step that keeps the column moves
\* the direction one place along asc -> desc -> none -> asc or leaves it, so
\* three such moves restore it; a step that changes the column sets the
\* direction to asc.
C7_SortCycle ==
  [][ /\ sortColumn \in SortColumns /\ sortBy \in SortDirections
      /\ sortColumn' \in SortColumns /\ sortBy' \in SortDirections
      /\ (loadPc # "done") =>
           (sortColumn = "quantity" /\ sortBy = "desc")
      /\ (sortColumn' = sortColumn) =>
           /\ sortBy' \in {sortBy, CycleNext(sortBy)}
           /\ CycleNext(CycleNext(CycleNext(sortBy))) = sortBy
      /\ (sortColumn' # sortColumn) => sortBy' = "asc"
      /\ \A column \in SortColumns :
           handleSort(column) =>
             /\ sortColumn' = column
             /\ sortBy' = IF column = sortColumn THEN CycleNext(sortBy)
                          ELSE "asc"
    ]_vars

\* The name column was selected and clicked twice more.
C7_Witness == sortColumn = "name" /\ sortBy = "none"

\* The aggregated records before sorting.
Unsorted ==
  ComputeFilteredProducts(products, searchTerm, "none", sortColumn,
                          selectedDate)

PositionIn(list, r) == CHOOSE k \in 1..Len(list) : list[k] = r

\* C8: with sort column quantity and a direction, the view is a permutation
\* of the aggregated records, ordered by parseQuantity (non-decreasing for
\* asc, non-increasing for desc), and records of equal magnitude keep the
\* order they had before sorting.
C8_QuantitySortStable ==
  (sortColumn = "quantity" /\ sortBy # "none") =>
    LET unsorted == Unsorted
        magnitude == [k \in 1..Len(filteredProducts) |->
                        parseQuantity(filteredProducts[k].quantity)]
    IN /\ Len(filteredProducts) = Len(unsorted)
       /\ \A k \in 1..Len(unsorted) :
            \E j \in 1..Len(filteredProducts) :
              filteredProducts[j] = unsorted[k]
       /\ \A i, j \in 1..Len(filteredProducts) :
            i < j =>
              /\ sortBy = "asc" => magnitude[i] <= magnitude[j]
              /\ sortBy = "desc" => magnitude[i] >= magnitude[j]
              /\ magnitude[i] = magnitude[j] =>
                   PositionIn(unsorted, filteredProducts[i])
                     < PositionIn(unsorted, filteredProducts[j])

\* A descending view with two records of equal magnitude and a third that
\* sorting moved in front of them.
C8_Witness ==
  /\ sortColumn = "quantity"
  /\ sortBy = "desc"
  /\ Len(filteredProducts) = 3
  /\ filteredProducts # Unsorted
  /\ parseQuantity(filteredProducts[2].quantity)
       = parseQuantity(filteredProducts[3].quantity)

NameAscending ==
  ComputeFilteredProducts(products, searchTerm, "asc", "name", selectedDate)

\* C9 (as claimed): when no two products have the same name, the view
\* sorted by name descending is the view sorted by name ascending and then
\* reversed.
C9_ReverseOfAscendingOriginal ==
  ( /\ sortColumn = "name"
    /\ sortBy = "desc"
    /\ \A i, j \in 1..Len(products) :
         i # j => products[i].name # products[j].name )
  => filteredProducts = Reverse(NameAscending)

\* C9 (amended): when no two products have names whose lower-cased forms
\* compare equal under the collation, the view sorted by name descending is
\* the view sorted by name ascending and then reversed.
C9_ReverseOfAscending ==
  ( /\ sortColumn = "name"
    /\ sortBy = "desc"
    /\ \A i, j \in 1..Len(products) :
         i # j => localeCompare(toLowerCase(products[i].name),
                                toLowerCase(products[j].name)) # 0 )
  => filteredProducts = Reverse(NameAscending)

\* The view is sorted by name descending, holds three records of names that
\* compare different, and is the reverse of the ascending view.
C9_Witness ==
  /\ sortColumn = "name"
  /\ sortBy = "desc"
  /\ Len(filteredProducts) = 3
  /\ \A i, j \in 1..Len(products) :
       i # j => localeCompare(toLowerCase(products[i].name),
                              toLowerCase(products[j].name)) # 0
  /\ filteredProducts = Reverse(NameAscending)
  /\ filteredProducts # NameAscending

\* C10 (as claimed): aggregating the aggregated records again (their names
\* and post-merge quantity texts as input) gives the same records with the
\* same magnitudes: the second pass merges nothing.
C10_AggregationIdempotent ==
  LET second == GroupProducts(filteredProducts)
  IN /\ Len(second) = Len(filteredProducts)
     /\ \A k \in 1..Len(second) :
          /\ second[k].name = filteredProducts[k].name
          /\ parseQuantity(second[k].quantity)
               = parseQuantity(filteredProducts[k].quantity)

\* C11: with sort direction none the view holds exactly one record per
\* distinct group key (the text name-quantity) of the passing products, in
\* the order in which the keys first occur; and in every view the uniqueKey
\* values of the records are pairwise distinct.
C11_FirstSeenOrderDistinctKeys ==
  LET passing == PassingProducts
      first == {i \in 1..Len(passing) :
                  \A j \in 1..(i - 1) :
                    passing[j].uniqueKey # passing[i].uniqueKey}
      Nth(k) == CHOOSE i \in first : Cardinality({j \in first : j <= i}) = k
  IN /\ sortBy = "none" =>
          /\ Len(filteredProducts) = Cardinality(first)
          /\ \A k \in 1..Len(filteredProducts) :
               filteredProducts[k].uniqueKey = passing[Nth(k)].uniqueKey
     /\ \A i, j \in 1..Len(filteredProducts) :
          i # j => filteredProducts[i].uniqueKey # filteredProducts[j].uniqueKey

\* An unsorted view of two records for three passing products, the first and
\* the third of one key.
C11_Witness ==
  /\ sortBy = "none"
  /\ Len(PassingProducts) = 3
  /\ PassingProducts[1].uniqueKey = PassingProducts[3].uniqueKey
  /\ PassingProducts[1].uniqueKey # PassingProducts[2].uniqueKey
  /\ Len(filteredProducts) = 2
  /\ filteredProducts[2].uniqueKey = PassingProducts[2].uniqueKey

\* C12: computing the view writes to no stored product: once the load is
\* done every step leaves the stored list as it was (each record keeps its
\* name, quantity text, id and date), and computing the view again from the
\* stored list with the same parameters gives the view that is shown.
C12_StoredProductsUntouched ==
  [][ /\ (loadPc = "done") => (products' = products)
      /\ filteredProducts' =
           ComputeFilteredProducts(products', searchTerm', sortBy',
                                   sortColumn', selectedDate')
    ]_vars

\* After a change of the search text the view shows a merged record, and the
\* stored product it started from still has its own quantity text.
C12_Witness ==
  /\ loadPc = "done"
  /\ searchTerm # <<>>
  /\ \E k \in 1..Len(filteredProducts) :
       \E i \in 1..Len(products) :
         /\ products[i].id = filteredProducts[k].id
         /\ products[i].quantity # filteredProducts[k].quantity
         /\ products[i].quantity = Kg2
         /\ filteredProducts[k].quantity = Kg4

\* C13: the magnitudes of the view add up to the sum of parseQuantity over
\* the quantity texts of the passing products, and the view computed from
\* the products in the opposite order has the same total.
C13_TotalMagnitudeConserved ==
  /\ SumOfMagnitudes(filteredProducts) = SumOfMagnitudes(PassingProducts)
  /\ SumOfMagnitudes(
       ComputeFilteredProducts(Reverse(products), searchTerm, sortBy,
                               sortColumn, selectedDate))
       = SumOfMagnitudes(filteredProducts)

\* Three passing products aggregated into two records, one of them merged,
\* the total being 2 + 2 + 1.
C13_Witness ==
  /\ Len(PassingProducts) = 3
  /\ Len(filteredProducts) = 2
  /\ \E k \in 1..2 : filteredProducts[k].quantity = Kg4
  /\ SumOfMagnitudes(filteredProducts) = 5

\* C14: the load starts at loading = true, error = null, products = [];
\* whatever its outcome, loading becomes false at some time and, once false,
\* stays false; an error message and a non-empty product list are never both
\* set, and with an error message the product list and the view are empty.
C14_LoadOneShot ==
  /\ loading = TRUE /\ error = null /\ products = <<>>
  /\ <>(loading = FALSE)
  /\ [][ /\ (loading = FALSE) => (loading' = FALSE)
         /\ ~(error' # null /\ products' # <<>>)
         /\ (error' # null) => (products' = <<>> /\ filteredProducts' = <<>>)
       ]_vars

\* The parser's error callback has ended the load.
C14_Witness ==
  /\ loadPc = "done"
  /\ loading = FALSE
  /\ error = ParseFailedMessage
  /\ products = <<>>

====
